---- MODULE Spec2Model ----
(***************************************************************************)
(* Workflow orchestration engine of lenk_automation.                       *)
(*                                                                         *)
(* The model covers the WorkflowOrchestratorAgent                          *)
(* (src/lib/agents/workflow/index.ts), the SpecializedAgent task handlers  *)
(* (src/lib/agents/specialized/index.ts) and the AgentEventBus that        *)
(* connects them (src/app/api/workflows/route.ts, second half).            *)
(*                                                                         *)
(* Every subscriber of the bus is an async function that the bus invokes   *)
(* synchronously (EventEmitter.emit); none of the orchestrator's handlers  *)
(* awaits anything but its own executeWorkflowStep, which never suspends   *)
(* on I/O, and every publisher in the repository publishes one event per   *)
(* macrotask (one HTTP request, one timer).  Each handler is therefore one *)
(* atomic action.  The only real latency is the handlers' execute(), which *)
(* waits on a timer: a task is "running" between its dispatch and the      *)
(* publication of its result.                                              *)
(***************************************************************************)
EXTENDS Integers, Sequences, FiniteSets, TLC

VARIABLES
    activeWorkflows,  \* WorkflowOrchestratorAgent.activeWorkflows : id -> Workflow
    running,          \* tasks a SpecializedAgent.handleTask is awaiting execute() for
    taskHandlers,     \* agent type -> number of handleTask listeners on `task:${type}`
    agentsApi,        \* the agents API's `agents` Map: agent type -> agents stored
    agentStatus,      \* agent type -> SpecializedAgent.status of the orchestrator's agent
    workflows         \* the workflows API's `workflows` Map: id -> status

vars == <<activeWorkflows, running, taskHandlers, agentsApi, agentStatus, workflows>>

----------------------------------------------------------------------------
(* Bounds *)

\* Number of tasks the agents may be executing at the same time: a caller
\* publishes no event that would dispatch more.
MaxRunning == 2

\* Number of agents of one type the agents API is asked to create, and of
\* listeners the bus holds for one topic.
MaxAgents == 2

----------------------------------------------------------------------------
(* Values *)

\* JavaScript's undefined: an absent field of a payload.
Undefined == "undefined"

\* enum AgentType
AgentType == {"customer_service", "scheduling", "billing", "document", "workflow"}

\* enum WorkflowStepStatus
WorkflowStepStatus == {"pending", "in_progress", "completed", "failed", "skipped"}

\* Workflow['status']
WorkflowStatus == {"active", "paused", "completed", "failed"}

\* initialize() without its test for WORKFLOW: an agent for every AgentType.
agents_All == AgentType

\* The keys of WorkflowOrchestratorAgent.agents after initialize(): every
\* AgentType except WORKFLOW gets a specialized agent.
agents == {t \in AgentType : t # "workflow"}

\* Ids a caller uses for workflows, and ids the definitions use for steps.
WorkflowIds == {"w1"}
StepIds == {"s1", "s2", "s3"}

\* uuidv4() returns an id that no live object holds; the model takes the
\* first id of Uuids that is not in use.  No uuid is the string "*".
Uuids == <<"u1", "u2", "u3", "u4", "u5", "u6", "u7", "u8">>
uuidv4(used) ==
    Uuids[CHOOSE n \in 1..Len(Uuids) :
            /\ Uuids[n] \notin used
            /\ \A k \in 1..(n - 1) : Uuids[k] \in used]

\* An event name `${prefix}:${suffix}`.
Topic(prefix, suffix) == [prefix |-> prefix, suffix |-> suffix]

\* A step of a definition, as a caller of workflow:create supplies it.
StepDef(id, agentType, dependsOn) ==
    [id |-> id, agentType |-> agentType, dependsOn |-> dependsOn]

\* The workflow definitions callers create: the two-step onboarding flow, a
\* chain, a join of two roots (the first with a config that has keys named
\* workflowId and stepId), steps of the type no agent is registered
\* for, a dependency cycle and a reference to a step that does not exist.
Onboarding ==
    << StepDef("s1", "customer_service", {}),
       StepDef("s2", "document", {"s1"}) >>
Chain ==
    << StepDef("s1", "customer_service", {}),
       StepDef("s2", "document", {"s1"}),
       StepDef("s3", "document", {"s2"}) >>
Join ==
    << [id |-> "s1", agentType |-> "customer_service", dependsOn |-> {},
        config |-> [workflowId |-> "w9", stepId |-> "s9"]],
       StepDef("s2", "document", {}),
       StepDef("s3", "document", {"s1", "s2"}) >>
Nested ==
    << StepDef("s1", "workflow", {}),
       StepDef("s2", "workflow", {"s1"}) >>
Cyclic ==
    << StepDef("s1", "customer_service", {}),
       StepDef("s2", "document", {"s3"}),
       StepDef("s3", "document", {"s2"}) >>
Dangling ==
    << StepDef("s1", "customer_service", {}),
       StepDef("s2", "document", {"s1", "s9"}) >>

\* A definition whose only step has no id and carries a status and a result
\* of its own, as a caller may send it.
Unnamed ==
    << [id |-> Undefined, agentType |-> "workflow", dependsOn |-> {},
        status |-> "completed", result |-> "success"] >>

Definitions == {Onboarding, Chain, Join, Nested, Cyclic, Dangling, Unnamed}

\* The payloads a publisher can put on the orchestrator's result topic: a
\* result for each step id the definitions use, for a step id none of them
\* uses, for a workflow id no caller uses, and results that lack the
\* workflowId or the stepId.
ResultPayloads ==
    [taskId : {Undefined}, success : BOOLEAN,
     workflowId : WorkflowIds, stepId : StepIds]
    \cup
    [taskId : {Undefined}, success : {TRUE},
     workflowId : WorkflowIds, stepId : {"s9", Undefined}]
    \cup
    [taskId : {Undefined}, success : {TRUE},
     workflowId : {Undefined, "w9"}, stepId : {"s1"}]

----------------------------------------------------------------------------
(* Event bus *)

\* The subscriptions made by WorkflowOrchestratorAgent.initialize and by the
\* SpecializedAgent.initialize of each agent it creates.
Subscriptions ==
    { [topic |-> Topic("task", t), listener |-> "handleTask"] : t \in agents }
    \cup
    { [topic |-> Topic("workflow", "create"), listener |-> "createWorkflow"],
      [topic |-> Topic("workflow", "start"), listener |-> "startWorkflow"],
      [topic |-> Topic("workflow", "pause"), listener |-> "pauseWorkflow"],
      [topic |-> Topic("workflow", "resume"), listener |-> "resumeWorkflow"],
      [topic |-> Topic("workflow", "cancel"), listener |-> "cancelWorkflow"],
      [topic |-> Topic("result", "*"), listener |-> "handleTaskResult"] }

\* AgentEventBus.publishEvent: EventEmitter.emit invokes the listeners
\* registered under exactly this event name.
Listeners(topic) ==
    { s.listener : s \in { x \in Subscriptions : x.topic = topic } }

Event(topic, payload) == [topic |-> topic, payload |-> payload]

\* The listeners of the bus in the order in which initialize registers them
\* with subscribeToEvent (EventEmitter.on appends): the four agents'
\* handleTask, then the orchestrator's listeners.
SubscriptionOrder ==
    << [topic |-> Topic("task", "customer_service"), listener |-> "handleTask"],
       [topic |-> Topic("task", "scheduling"), listener |-> "handleTask"],
       [topic |-> Topic("task", "billing"), listener |-> "handleTask"],
       [topic |-> Topic("task", "document"), listener |-> "handleTask"],
       [topic |-> Topic("workflow", "create"), listener |-> "createWorkflow"],
       [topic |-> Topic("workflow", "start"), listener |-> "startWorkflow"],
       [topic |-> Topic("workflow", "pause"), listener |-> "pauseWorkflow"],
       [topic |-> Topic("workflow", "resume"), listener |-> "resumeWorkflow"],
       [topic |-> Topic("workflow", "cancel"), listener |-> "cancelWorkflow"],
       [topic |-> Topic("result", "*"), listener |-> "handleTaskResult"] >>

\* A bus that matches a subscription by the part of the event name before
\* the colon.
Deliveries_ByPrefix(events) ==
    LET Calls(e) ==
           LET hit(s) == s.topic.prefix = e.topic.prefix
               subs   == SelectSeq(SubscriptionOrder, hit)
           IN  [k \in 1..Len(subs) |->
                   [listener |-> subs[k].listener, topic |-> subs[k].topic,
                    payload |-> e.payload]]
        F[n \in 0..Len(events)] ==
           IF n = 0 THEN << >> ELSE F[n - 1] \o Calls(events[n])
    IN  F[Len(events)]

\* AgentEventBus.publishEvent called for each of the events in turn: the
\* listener calls that EventEmitter.emit makes, in order.  emit calls, before
\* it returns, each listener registered under the event name once, in
\* registration order.
Deliveries(events) ==
    LET Calls(e) ==
           LET hit(s) == s.topic = e.topic
               subs   == SelectSeq(SubscriptionOrder, hit)
           IN  [k \in 1..Len(subs) |->
                   [listener |-> subs[k].listener, topic |-> subs[k].topic,
                    payload |-> e.payload]]
        F[n \in 0..Len(events)] ==
           IF n = 0 THEN << >> ELSE F[n - 1] \o Calls(events[n])
    IN  F[Len(events)]

----------------------------------------------------------------------------
(* Workflow store helpers *)

\* A map that keeps the entry it has when the key is set again.
MapSet_KeepExisting(m, k, v) ==
    [x \in (DOMAIN m) \cup {k} |-> IF x \in DOMAIN m THEN m[x] ELSE v]

\* Map.set
MapSet(m, k, v) == [x \in (DOMAIN m) \cup {k} |-> IF x = k THEN v ELSE m[x]]

\* The indices of i..n that are in keep, in increasing order (Array.filter
\* keeps the array's order).
RECURSIVE FilterFrom(_, _, _)
FilterFrom(i, n, keep) ==
    IF i > n THEN << >>
    ELSE IF i \in keep THEN << i >> \o FilterFrom(i + 1, n, keep)
    ELSE FilterFrom(i + 1, n, keep)

\* Array.find that falls back on the first step when no step has the id.
FindStep_OrFirst(wf, id) ==
    LET hits == { i \in 1..Len(wf.steps) : wf.steps[i].id = id }
    IN  IF hits = {} THEN 1 ELSE CHOOSE i \in hits : \A j \in hits : i <= j

\* Array.find by id: the index of the first step with this id, 0 if none.
FindStep(wf, id) ==
    LET hits == { i \in 1..Len(wf.steps) : wf.steps[i].id = id }
    IN  IF hits = {} THEN 0 ELSE CHOOSE i \in hits : \A j \in hits : i <= j

----------------------------------------------------------------------------
(* WorkflowOrchestratorAgent: step execution *)

\* areStepDependenciesMet with `some` in place of `every`: one completed
\* dependency is taken to be enough.
AreStepDependenciesMet_Some(wf, step) ==
    IF step.dependsOn = {} THEN TRUE
    ELSE \E dependencyId \in step.dependsOn :
            LET d == FindStep(wf, dependencyId)
            IN  d # 0 /\ wf.steps[d].status = "completed"

\* areStepDependenciesMet that takes a dependency id that names no step of
\* the workflow as met.
AreStepDependenciesMet_IgnoringMissing(wf, step) ==
    IF step.dependsOn = {} THEN TRUE
    ELSE \A dependencyId \in step.dependsOn :
            LET d == FindStep(wf, dependencyId)
            IN  d = 0 \/ wf.steps[d].status = "completed"

\* areStepDependenciesMet(workflow, step)
AreStepDependenciesMet(wf, step) ==
    IF step.dependsOn = {} THEN TRUE
    ELSE \A dependencyId \in step.dependsOn :
            LET d == FindStep(wf, dependencyId)
            IN  d # 0 /\ wf.steps[d].status = "completed"

\* `step.config || {}` of a step sent without a config.
EmptyConfig == [k \in {} |-> Undefined]

\* An object spread in which the keys written first win.
Spread_FirstWins(a, b) ==
    [k \in DOMAIN a \cup DOMAIN b |-> IF k \in DOMAIN a THEN a[k] ELSE b[k]]

\* The object literal { ...a, <the properties of b> }: a property written
\* later replaces one of the same name written earlier.
Spread(a, b) ==
    [k \in DOMAIN a \cup DOMAIN b |-> IF k \in DOMAIN b THEN b[k] ELSE a[k]]

\* The task executeWorkflowStep builds for step i of workflow wf: its data is
\* the step's config followed by the workflowId and the stepId.
NewTask(wf, i, used) ==
    LET data == Spread(wf.steps[i].config,
                       [workflowId |-> wf.id, stepId |-> wf.steps[i].id])
    IN  [id |-> uuidv4(used), agentType |-> wf.steps[i].agentType,
         workflowId |-> data.workflowId, stepId |-> data.stepId]

\* executeWorkflowStep without its first test: the step is executed whatever
\* the status of the workflow.
ExecuteWorkflowStep_AnyStatus(ctx, i) ==
    IF ~AreStepDependenciesMet(ctx.wf, ctx.wf.steps[i]) THEN ctx
    ELSE IF ctx.wf.steps[i].agentType \notin agents
         THEN [ctx EXCEPT !.wf.steps[i].status = "failed"]
    ELSE LET task == NewTask(ctx.wf, i, ctx.used)
         IN  [wf |-> [ctx.wf EXCEPT !.steps[i].status = "in_progress"],
              out |-> Append(ctx.out,
                             Event(Topic("task", ctx.wf.steps[i].agentType), task)),
              used |-> ctx.used \cup {task.id}]

\* executeWorkflowStep(workflow, step).  ctx carries the workflow object, the
\* events published so far by the running handler and the task ids in use.
ExecuteWorkflowStep(ctx, i) ==
    IF ctx.wf.status # "active" THEN ctx
    ELSE IF ~AreStepDependenciesMet(ctx.wf, ctx.wf.steps[i]) THEN ctx
    ELSE IF ctx.wf.steps[i].agentType \notin agents
         THEN [ctx EXCEPT !.wf.steps[i].status = "failed"]
    ELSE LET task == NewTask(ctx.wf, i, ctx.used)
         IN  [wf |-> [ctx.wf EXCEPT !.steps[i].status = "in_progress"],
              out |-> Append(ctx.out,
                             Event(Topic("task", ctx.wf.steps[i].agentType), task)),
              used |-> ctx.used \cup {task.id}]

\* for (const step of steps) await this.executeWorkflowStep(workflow, step)
RECURSIVE ExecuteSteps(_, _)
ExecuteSteps(ctx, idxs) ==
    IF idxs = << >> THEN ctx
    ELSE ExecuteSteps(ExecuteWorkflowStep(ctx, Head(idxs)), Tail(idxs))

\* The fan-out loop of handleTaskResult: each dependent step is executed if
\* its dependencies are met when its turn comes.
RECURSIVE ExecuteDependents(_, _)
ExecuteDependents(ctx, idxs) ==
    IF idxs = << >> THEN ctx
    ELSE LET i == Head(idxs)
             c == IF AreStepDependenciesMet(ctx.wf, ctx.wf.steps[i])
                  THEN ExecuteWorkflowStep(ctx, i)
                  ELSE ctx
         IN  ExecuteDependents(c, Tail(idxs))

\* startWorkflow without its filter: every step is tried.
InitialSteps_Unfiltered(wf) ==
    FilterFrom(1, Len(wf.steps), 1..Len(wf.steps))

\* startWorkflow: workflow.steps.filter(step => step.dependsOn.length === 0)
InitialSteps(wf) ==
    FilterFrom(1, Len(wf.steps),
               { i \in 1..Len(wf.steps) : wf.steps[i].dependsOn = {} })

\* resumeWorkflow's filter without its status test: every step whose
\* dependencies are all completed.
PendingSteps_AnyStatus(wf) ==
    FilterFrom(1, Len(wf.steps),
               { i \in 1..Len(wf.steps) : AreStepDependenciesMet(wf, wf.steps[i]) })

\* resumeWorkflow: pending steps whose dependencies are all completed
PendingSteps(wf) ==
    FilterFrom(1, Len(wf.steps),
               { i \in 1..Len(wf.steps) :
                    /\ wf.steps[i].status = "pending"
                    /\ AreStepDependenciesMet(wf, wf.steps[i]) })

\* The dependency test of handleTaskResult turned around: the pending steps
\* that the finished step lists in its own dependsOn.
DependentSteps_Reversed(wf, stepId) ==
    FilterFrom(1, Len(wf.steps),
               { i \in 1..Len(wf.steps) :
                    /\ wf.steps[i].id \in wf.steps[FindStep(wf, stepId)].dependsOn
                    /\ wf.steps[i].status = "pending" })

\* The filter of handleTaskResult without its status test: every step that
\* lists the finished step in dependsOn.
DependentSteps_AnyStatus(wf, stepId) ==
    FilterFrom(1, Len(wf.steps),
               { i \in 1..Len(wf.steps) : stepId \in wf.steps[i].dependsOn })

\* handleTaskResult: pending steps that list the finished step in dependsOn
DependentSteps(wf, stepId) ==
    FilterFrom(1, Len(wf.steps),
               { i \in 1..Len(wf.steps) :
                    /\ stepId \in wf.steps[i].dependsOn
                    /\ wf.steps[i].status = "pending" })

\* handleTaskResult: every step completed, failed or skipped
\* The completion test of handleTaskResult asking for one finished step
\* instead of all of them.
AllStepsCompleted_Some(wf) ==
    \E i \in 1..Len(wf.steps) :
        wf.steps[i].status \in {"completed", "failed", "skipped"}

\* handleTaskResult: every step is completed, failed or skipped
AllStepsCompleted(wf) ==
    \A i \in 1..Len(wf.steps) :
        wf.steps[i].status \in {"completed", "failed", "skipped"}

AnyStepFailed(wf) ==
    \E i \in 1..Len(wf.steps) : wf.steps[i].status = "failed"

\* createWorkflow that copies the steps of the definition as they are sent.
NewWorkflow_Copying(id, def, used) ==
    [id |-> id,
     status |-> "active",
     completedAt |-> FALSE,
     steps |-> [i \in 1..Len(def) |->
                  [id |-> def[i].id,
                   agentType |-> def[i].agentType,
                   status |-> IF "status" \in DOMAIN def[i]
                              THEN def[i].status ELSE "pending",
                   dependsOn |-> def[i].dependsOn,
                   config |-> IF "config" \in DOMAIN def[i]
                              THEN def[i].config ELSE EmptyConfig,
                   result |-> IF "result" \in DOMAIN def[i]
                              THEN def[i].result ELSE Undefined]]]

\* The object createWorkflow stores for a definition: each step is built
\* field by field, with `step.id || uuidv4()` as its id, PENDING as its
\* status, `step.config || {}` as its config and no result.
NewWorkflow(id, def, used) ==
    LET usedAfter[i \in 0..Len(def)] ==
           IF i = 0 THEN used
           ELSE IF def[i].id = Undefined
                THEN usedAfter[i - 1] \cup {uuidv4(usedAfter[i - 1])}
                ELSE usedAfter[i - 1]
    IN  [id |-> id,
         status |-> "active",
         completedAt |-> FALSE,
         steps |-> [i \in 1..Len(def) |->
                      [id |-> IF def[i].id = Undefined
                              THEN uuidv4(usedAfter[i - 1]) ELSE def[i].id,
                       agentType |-> def[i].agentType,
                       status |-> "pending",
                       config |-> IF "config" \in DOMAIN def[i]
                                  THEN def[i].config ELSE EmptyConfig,
                       dependsOn |-> def[i].dependsOn,
                       result |-> Undefined]]]

\* cancelWorkflow with its first pass only: in_progress -> failed, and the
\* pending steps are left as they are.
CancelSteps_OnlyInProgress(steps) ==
    [i \in 1..Len(steps) |->
        IF steps[i].status = "in_progress"
        THEN [steps[i] EXCEPT !.status = "failed"]
        ELSE steps[i]]

\* cancelWorkflow with a second pass that takes the steps that did not
\* succeed, read before the first pass wrote: in_progress -> failed, and
\* pending or failed -> skipped.
CancelSteps_Demoting(steps) ==
    [i \in 1..Len(steps) |->
        IF steps[i].status = "in_progress"
        THEN [steps[i] EXCEPT !.status = "failed"]
        ELSE IF steps[i].status \in {"pending", "failed"}
        THEN [steps[i] EXCEPT !.status = "skipped"]
        ELSE steps[i]]

\* cancelWorkflow with its second pass only: pending -> skipped, and the
\* steps in progress are left as they are.
CancelSteps_OnlyPending(steps) ==
    [i \in 1..Len(steps) |->
        IF steps[i].status = "pending"
        THEN [steps[i] EXCEPT !.status = "skipped"]
        ELSE steps[i]]

\* cancelWorkflow's two passes followed by a reset that drops the result of
\* every step.
CancelSteps_ClearingResults(steps) ==
    [i \in 1..Len(steps) |->
        [steps[i] EXCEPT
           !.status = IF steps[i].status = "in_progress" THEN "failed"
                      ELSE IF steps[i].status = "pending" THEN "skipped"
                      ELSE steps[i].status,
           !.result = Undefined]]

\* cancelWorkflow's two passes over the steps: in_progress -> failed, then
\* pending -> skipped.
CancelSteps(steps) ==
    LET failedPass == [i \in 1..Len(steps) |->
                         IF steps[i].status = "in_progress"
                         THEN [steps[i] EXCEPT !.status = "failed"]
                         ELSE steps[i]]
    IN  [i \in 1..Len(steps) |->
            IF failedPass[i].status = "pending"
            THEN [failedPass[i] EXCEPT !.status = "skipped"]
            ELSE failedPass[i]]

----------------------------------------------------------------------------
(* WorkflowOrchestratorAgent: the listeners.  Each takes the store m and     *)
(* returns the store afterwards, the events it published in order, and       *)
(* whether it threw (the promise of the async listener is rejected).         *)

Returned(m, out) == [store |-> m, out |-> out, threw |-> FALSE]
Threw(m) == [store |-> m, out |-> << >>, threw |-> TRUE]

\* createWorkflow(data): the workflow is stored under `data.id || uuidv4()`.
CreateWorkflow(m, data, used) ==
    LET id == IF data.id = Undefined THEN uuidv4(used) ELSE data.id
    IN  Returned(MapSet(m, id, NewWorkflow(id, data.steps, used \cup {id})),
                 << Event(Topic("workflow", "created"), [workflowId |-> id]) >>)

\* startWorkflow({workflowId})
StartWorkflow(m, data, used) ==
    IF data.workflowId \notin DOMAIN m THEN Threw(m)
    ELSE LET wf == [m[data.workflowId] EXCEPT !.status = "active"]
             c  == ExecuteSteps([wf |-> wf, out |-> << >>, used |-> used],
                                InitialSteps(wf))
         IN  Returned(MapSet(m, data.workflowId, c.wf), c.out)

\* A pause that recalls the dispatches already sent: the in_progress steps go
\* back to pending.
PauseWorkflow_Recalling(m, data) ==
    IF data.workflowId \notin DOMAIN m THEN Threw(m)
    ELSE LET wf == m[data.workflowId] IN
         Returned(MapSet(m, data.workflowId,
                    [wf EXCEPT
                       !.status = "paused",
                       !.steps = [i \in 1..Len(wf.steps) |->
                                    IF wf.steps[i].status = "in_progress"
                                    THEN [wf.steps[i] EXCEPT !.status = "pending"]
                                    ELSE wf.steps[i]]]),
                  << >>)

\* pauseWorkflow({workflowId})
PauseWorkflow(m, data) ==
    IF data.workflowId \notin DOMAIN m THEN Threw(m)
    ELSE Returned(MapSet(m, data.workflowId,
                         [m[data.workflowId] EXCEPT !.status = "paused"]),
                  << >>)

\* resumeWorkflow({workflowId})
ResumeWorkflow(m, data, used) ==
    IF data.workflowId \notin DOMAIN m THEN Threw(m)
    ELSE LET wf == [m[data.workflowId] EXCEPT !.status = "active"]
             c  == ExecuteSteps([wf |-> wf, out |-> << >>, used |-> used],
                                PendingSteps(wf))
         IN  Returned(MapSet(m, data.workflowId, c.wf), c.out)

\* A cancel that takes every stored workflow instead of the one named.
CancelWorkflow_All(m, data) ==
    IF data.workflowId \notin DOMAIN m THEN Threw(m)
    ELSE Returned([w \in DOMAIN m |->
                      [m[w] EXCEPT !.status = "failed",
                                   !.completedAt = TRUE,
                                   !.steps = CancelSteps(m[w].steps)]],
                  << Event(Topic("workflow", "cancelled"),
                           [workflowId |-> data.workflowId]) >>)

\* cancelWorkflow({workflowId})
CancelWorkflow(m, data) ==
    IF data.workflowId \notin DOMAIN m THEN Threw(m)
    ELSE LET wf0 == m[data.workflowId]
             wf  == [wf0 EXCEPT !.status = "failed",
                                !.completedAt = TRUE,
                                !.steps = CancelSteps(wf0.steps)]
         IN  Returned(MapSet(m, data.workflowId, wf),
                      << Event(Topic("workflow", "cancelled"),
                               [workflowId |-> data.workflowId]) >>)

\* handleTaskResult(result) on the store m, with the task ids in use: the
\* store and the events published afterwards.
HandleTaskResult(m, result, used) ==
    LET same == Returned(m, << >>) IN
    IF result.workflowId = Undefined \/ result.stepId = Undefined THEN same
    ELSE IF result.workflowId \notin DOMAIN m THEN same
    ELSE LET wf0 == m[result.workflowId]
             s   == FindStep(wf0, result.stepId)
         IN  IF s = 0 THEN same
             ELSE
             LET wf1 == [wf0 EXCEPT
                           !.steps[s].status =
                               IF result.success THEN "completed" ELSE "failed",
                           !.steps[s].result =
                               IF result.success THEN "success" ELSE "failure"]
                 c0  == [wf |-> wf1, out |-> << >>, used |-> used]
                 c1  == IF result.success
                        THEN ExecuteDependents(c0, DependentSteps(wf1, wf1.steps[s].id))
                        ELSE c0
                 done == AllStepsCompleted(c1.wf)
                 wf2 == IF done
                        THEN [c1.wf EXCEPT
                                !.status = IF AnyStepFailed(c1.wf)
                                           THEN "failed" ELSE "completed",
                                !.completedAt = TRUE]
                        ELSE c1.wf
                 out2 == IF done
                         THEN Append(c1.out,
                                Event(Topic("workflow", "completed"),
                                      [workflowId |-> wf2.id,
                                       success |-> ~AnyStepFailed(c1.wf)]))
                         ELSE c1.out
             IN  Returned(MapSet(m, wf2.id, wf2), out2)

\* The ids of the tasks that are being executed.
TaskIds(tasks) == { t.id : t \in tasks }

\* The ids that live objects hold: the tasks being executed and the steps of
\* the stored workflows.  uuidv4() returns none of them.
IdsInUse(m, tasks) ==
    TaskIds(tasks)
    \cup UNION { { m[w].steps[i].id : i \in 1..Len(m[w].steps) } : w \in DOMAIN m }

\* handleCreateWorkflow(task): createWorkflow(task.data), then a result whose
\* workflowId is `task.data.id || uuidv4()`, a uuid drawn after those that
\* createWorkflow drew.
HandleCreateWorkflow(m, task, used) ==
    LET r == CreateWorkflow(m, task.data, used)
        usedAfter == used \cup DOMAIN r.store \cup IdsInUse(r.store, {})
    IN  [store |-> r.store, out |-> r.out, threw |-> FALSE,
         result |-> [taskId |-> task.id, success |-> TRUE,
                     workflowId |-> IF task.data.id = Undefined
                                    THEN uuidv4(usedAfter) ELSE task.data.id]]

\* handleExecuteWorkflow(task): startWorkflow({workflowId: task.data.workflowId})
HandleExecuteWorkflow(m, task, used) ==
    LET r == StartWorkflow(m, [workflowId |-> task.data.workflowId], used)
    IN  [store |-> r.store, out |-> r.out, threw |-> r.threw,
         result |-> [taskId |-> task.id, success |-> TRUE,
                     workflowId |-> task.data.workflowId]]

\* WorkflowOrchestratorAgent.execute(task): the switch on task.type inside
\* try/catch.  An error thrown by a handler is returned as a result with
\* success false.
WorkflowExecute(m, task, used) ==
    LET r == IF task.type = "create_workflow"
                THEN HandleCreateWorkflow(m, task, used)
             ELSE IF task.type = "execute_workflow"
                THEN HandleExecuteWorkflow(m, task, used)
             ELSE [store |-> m, out |-> << >>, threw |-> TRUE,
                   result |-> Undefined]
    IN  [store |-> r.store, out |-> r.out,
         result |-> IF r.threw
                    THEN [taskId |-> task.id, success |-> FALSE,
                          workflowId |-> Undefined]
                    ELSE r.result]

\* SpecializedAgent subclasses' execute(task): the result object each of the
\* four agents returns.  It has the fields taskId, success, data, completedAt.
Execute(task) ==
    [taskId |-> task.id, success |-> TRUE,
     workflowId |-> Undefined, stepId |-> Undefined]

\* The errorResult that handleTask builds in its catch block.
ErrorResult(task) ==
    [taskId |-> task.id, success |-> FALSE,
     workflowId |-> Undefined, stepId |-> Undefined]

\* How the await of execute(task) in handleTask can end.  The execute of the
\* four agents waits for its timer and returns its result object.
ExecuteOutcomes == {"returned", "threw"}
ExecuteOutcome(task) == "returned"

\* handleTask that publishes the result in its try block and once more on
\* its way out.
HandleTaskEvents_Twice(task, outcome) ==
    IF outcome = "returned"
    THEN << Event(Topic("result", task.id), Execute(task)),
            Event(Topic("result", task.id), Execute(task)) >>
    ELSE << Event(Topic("result", task.id), ErrorResult(task)),
            Event(Topic("result", task.id), ErrorResult(task)) >>

\* SpecializedAgent.handleTask(task): the events it publishes, in order, when
\* execute(task) ends with the given outcome.  The try block publishes the
\* result, the catch block the errorResult; no listener is registered under
\* `result:${task.id}`, so the publishEvent of the try block does not throw.
HandleTaskEvents(task, outcome) ==
    IF outcome = "returned"
    THEN << Event(Topic("result", task.id), Execute(task)) >>
    ELSE << Event(Topic("result", task.id), ErrorResult(task)) >>

\* AgentEventBus.publishEvent(eventName, data) with the orchestrator's
\* listeners: emit calls the listener registered under this event name, if
\* there is one, and nothing otherwise.
PublishEvent(topic, data, m, used) ==
    LET ls == Listeners(topic) IN
    IF "createWorkflow" \in ls THEN CreateWorkflow(m, data, used)
    ELSE IF "startWorkflow" \in ls THEN StartWorkflow(m, data, used)
    ELSE IF "pauseWorkflow" \in ls THEN PauseWorkflow(m, data)
    ELSE IF "resumeWorkflow" \in ls THEN ResumeWorkflow(m, data, used)
    ELSE IF "cancelWorkflow" \in ls THEN CancelWorkflow(m, data)
    ELSE IF "handleTaskResult" \in ls THEN HandleTaskResult(m, data, used)
    ELSE Returned(m, << >>)

\* The tasks among the published events that a subscribed handleTask accepts:
\* the agent starts execute(task) and waits for its timer.
Accepted(out) ==
    { out[k].payload : k \in { j \in 1..Len(out) :
                                 /\ out[j].topic.prefix = "task"
                                 /\ "handleTask" \in Listeners(out[j].topic) } }

----------------------------------------------------------------------------
(* Actions: one per event published on the bus.  The Workflow* actions are  *)
(* the events as a publisher puts them on the bus, for any workflow id; the  *)
(* Api* actions further down are the route handlers that publish them for   *)
(* the workflows of the route's own store and write that store.             *)

\* SpecializedAgent.initialize(): one more listener on `task:${this.type}`.
SpecializedInitialize(handlers, type) ==
    [handlers EXCEPT ![type] = @ + 1]

\* WorkflowOrchestratorAgent.initialize(): it creates and initializes an agent
\* of every type but workflow.
OrchestratorInitialize(handlers) ==
    [type \in DOMAIN handlers |-> SpecializedInitialize(handlers, type)[type]]

\* The agents route after `agent.initialize()` for an agent of the type.
AgentInitialize(handlers, type) ==
    IF type = "workflow" THEN OrchestratorInitialize(handlers)
    ELSE SpecializedInitialize(handlers, type)

\* The modules are loaded: the bus has no listener and the agents API's Map
\* is empty.
AgentsInit ==
    /\ activeWorkflows = << >>
    /\ running = {}
    /\ taskHandlers = [type \in agents |-> 0]
    /\ agentsApi = [type \in AgentType |-> 0]
    /\ agentStatus = [type \in agents |-> "idle"]
    /\ workflows = << >>

\* One workflow orchestrator has been created through the agents API and
\* initialized; it has stored no workflow.
Init ==
    /\ activeWorkflows = << >>
    /\ running = {}
    /\ taskHandlers = AgentInitialize([type \in agents |-> 0], "workflow")
    /\ agentsApi = [type \in AgentType |-> IF type = "workflow" THEN 1 ELSE 0]
    /\ agentStatus = [type \in agents |-> "idle"]
    /\ workflows = << >>

\* handleTask up to its await: `this.status = AgentStatus.WORKING` in the
\* agent of each task that was accepted.
Working(st, tasks) ==
    [type \in DOMAIN st |->
        IF \E task \in tasks : task.agentType = type THEN "working" ELSE st[type]]

\* What publishing an event on the bus computes in the current state: the
\* listeners run to completion on the store.
Published(topic, data) ==
    PublishEvent(topic, data, activeWorkflows, IdsInUse(activeWorkflows, running))

\* POST /api/workflows: publishEvent('workflow:create', workflow)
WorkflowCreate(id, def) ==
    LET r == Published(Topic("workflow", "create"), [id |-> id, steps |-> def])
    IN  /\ Cardinality(running \cup Accepted(r.out)) <= MaxRunning
        /\ activeWorkflows' = r.store
        /\ running' = running \cup Accepted(r.out)
        /\ agentStatus' = Working(agentStatus, Accepted(r.out))
        /\ UNCHANGED <<taskHandlers, agentsApi, workflows>>

\* START_WORKFLOW: publishEvent('workflow:start', {workflowId})
WorkflowStart(id) ==
    LET r == Published(Topic("workflow", "start"), [workflowId |-> id])
    IN  /\ Cardinality(running \cup Accepted(r.out)) <= MaxRunning
        /\ activeWorkflows' = r.store
        /\ running' = running \cup Accepted(r.out)
        /\ agentStatus' = Working(agentStatus, Accepted(r.out))
        /\ UNCHANGED <<taskHandlers, agentsApi, workflows>>

\* PAUSE_WORKFLOW: publishEvent('workflow:pause', {workflowId})
WorkflowPause(id) ==
    LET r == Published(Topic("workflow", "pause"), [workflowId |-> id])
    IN  /\ Cardinality(running \cup Accepted(r.out)) <= MaxRunning
        /\ activeWorkflows' = r.store
        /\ running' = running \cup Accepted(r.out)
        /\ agentStatus' = Working(agentStatus, Accepted(r.out))
        /\ UNCHANGED <<taskHandlers, agentsApi, workflows>>

\* publishEvent('workflow:resume', {workflowId})
WorkflowResume(id) ==
    LET r == Published(Topic("workflow", "resume"), [workflowId |-> id])
    IN  /\ Cardinality(running \cup Accepted(r.out)) <= MaxRunning
        /\ activeWorkflows' = r.store
        /\ running' = running \cup Accepted(r.out)
        /\ agentStatus' = Working(agentStatus, Accepted(r.out))
        /\ UNCHANGED <<taskHandlers, agentsApi, workflows>>

\* CANCEL_WORKFLOW: publishEvent('workflow:cancel', {workflowId})
WorkflowCancel(id) ==
    LET r == Published(Topic("workflow", "cancel"), [workflowId |-> id])
    IN  /\ Cardinality(running \cup Accepted(r.out)) <= MaxRunning
        /\ activeWorkflows' = r.store
        /\ running' = running \cup Accepted(r.out)
        /\ agentStatus' = Working(agentStatus, Accepted(r.out))
        /\ UNCHANGED <<taskHandlers, agentsApi, workflows>>

\* A publisher puts a result on the event name the orchestrator subscribed
\* handleTaskResult to, 'result:*'.
ResultStar(result) ==
    LET r == Published(Topic("result", "*"), result)
    IN  /\ Cardinality(running \cup Accepted(r.out)) <= MaxRunning
        /\ activeWorkflows' = r.store
        /\ running' = running \cup Accepted(r.out)
        /\ agentStatus' = Working(agentStatus, Accepted(r.out))
        /\ UNCHANGED <<taskHandlers, agentsApi, workflows>>

\* SpecializedAgent.handleTask after its await: execute(task) has ended, the
\* agent publishes the one event of handleTask on `result:${task.id}` and its
\* finally block sets its status to IDLE.
HandleTask(task) ==
    LET event == Head(HandleTaskEvents(task, ExecuteOutcome(task)))
        r == Published(event.topic, event.payload)
        left == (running \ {task}) \cup Accepted(r.out)
    IN  /\ task \in running
        /\ Cardinality(left) <= MaxRunning
        /\ activeWorkflows' = r.store
        /\ running' = left
        /\ agentStatus' = [Working(agentStatus, Accepted(r.out))
                              EXCEPT ![task.agentType] = "idle"]
        /\ UNCHANGED <<taskHandlers, agentsApi, workflows>>

\* Every task an agent can be executing: the orchestrator sends an agent the
\* tasks of the steps of its type, and MaxRunning tasks and one step without
\* an id of its own hold the first MaxRunning + 1 ids.
Tasks ==
    [id : { Uuids[n] : n \in 1..(MaxRunning + 1) }, agentType : agents,
     workflowId : WorkflowIds, stepId : StepIds]

Next ==
    \/ \E id \in WorkflowIds, def \in Definitions : WorkflowCreate(id, def)
    \/ \E id \in WorkflowIds : WorkflowStart(id)
    \/ \E id \in WorkflowIds : WorkflowPause(id)
    \/ \E id \in WorkflowIds : WorkflowResume(id)
    \/ \E id \in WorkflowIds : WorkflowCancel(id)
    \/ \E result \in ResultPayloads : ResultStar(result)
    \/ \E task \in Tasks : HandleTask(task)

Spec == Init /\ [][Next]_vars

\* Two workflows side by side: the ids callers use for them, the definitions
\* they are created from (the first from the onboarding flow, the second from
\* its first step alone), and the results and tasks that name them.
FleetIds == {"w1", "w2"}
Single == << StepDef("s1", "customer_service", {}) >>
FleetDefinitions == [w1 |-> Onboarding, w2 |-> Single]
FleetResults ==
    [taskId : {Undefined}, success : BOOLEAN,
     workflowId : FleetIds, stepId : {"s1", "s2"}]
FleetTasks ==
    [id : { Uuids[n] : n \in 1..(MaxRunning + 1) }, agentType : agents,
     workflowId : FleetIds, stepId : StepIds]

FleetNext ==
    \/ \E id \in FleetIds : WorkflowCreate(id, FleetDefinitions[id])
    \/ \E id \in FleetIds : WorkflowStart(id)
    \/ \E id \in FleetIds : WorkflowPause(id)
    \/ \E id \in FleetIds : WorkflowResume(id)
    \/ \E id \in FleetIds : WorkflowCancel(id)
    \/ \E result \in FleetResults : ResultStar(result)
    \/ \E task \in FleetTasks : HandleTask(task)

\* The orchestrator with the events of two workflows interleaved.
FleetSpec == Init /\ [][FleetNext]_vars

\* The statuses PUT /api/workflows/:id accepts in its body.
UpdateStatuses == {"active", "paused", "completed", "failed"}

\* The definition the callers of the workflows API send.
ApiDefinitions == {Onboarding}

\* POST /api/workflows: the route stores the workflow with status active under
\* a new id and publishes workflow:create.
ApiCreate(id, def) ==
    LET r == Published(Topic("workflow", "create"), [id |-> id, steps |-> def])
    IN  /\ id \notin DOMAIN workflows \cup DOMAIN activeWorkflows
        /\ Cardinality(running \cup Accepted(r.out)) <= MaxRunning
        /\ workflows' = MapSet(workflows, id, "active")
        /\ activeWorkflows' = r.store
        /\ running' = running \cup Accepted(r.out)
        /\ agentStatus' = Working(agentStatus, Accepted(r.out))
        /\ UNCHANGED <<taskHandlers, agentsApi>>

\* START_WORKFLOW for a workflow of the route's store: the route publishes
\* workflow:start and then writes 'active' into its own copy.
ApiStart(id) ==
    LET r == Published(Topic("workflow", "start"), [workflowId |-> id])
    IN  /\ id \in DOMAIN workflows
        /\ Cardinality(running \cup Accepted(r.out)) <= MaxRunning
        /\ workflows' = MapSet(workflows, id, "active")
        /\ activeWorkflows' = r.store
        /\ running' = running \cup Accepted(r.out)
        /\ agentStatus' = Working(agentStatus, Accepted(r.out))
        /\ UNCHANGED <<taskHandlers, agentsApi>>

\* PAUSE_WORKFLOW for a workflow of the route's store: the route publishes
\* workflow:pause and then writes 'paused' into its own copy.
ApiPause(id) ==
    LET r == Published(Topic("workflow", "pause"), [workflowId |-> id])
    IN  /\ id \in DOMAIN workflows
        /\ Cardinality(running \cup Accepted(r.out)) <= MaxRunning
        /\ workflows' = MapSet(workflows, id, "paused")
        /\ activeWorkflows' = r.store
        /\ running' = running \cup Accepted(r.out)
        /\ agentStatus' = Working(agentStatus, Accepted(r.out))
        /\ UNCHANGED <<taskHandlers, agentsApi>>

\* CANCEL_WORKFLOW for a workflow of the route's store: the route publishes
\* workflow:cancel and then writes 'failed' into its own copy.
ApiCancel(id) ==
    LET r == Published(Topic("workflow", "cancel"), [workflowId |-> id])
    IN  /\ id \in DOMAIN workflows
        /\ Cardinality(running \cup Accepted(r.out)) <= MaxRunning
        /\ workflows' = MapSet(workflows, id, "failed")
        /\ activeWorkflows' = r.store
        /\ running' = running \cup Accepted(r.out)
        /\ agentStatus' = Working(agentStatus, Accepted(r.out))
        /\ UNCHANGED <<taskHandlers, agentsApi>>

\* PUT /api/workflows/:id with a status in the body: the route writes it into
\* its copy and publishes nothing.
ApiUpdate(id, status) ==
    /\ id \in DOMAIN workflows
    /\ workflows' = MapSet(workflows, id, status)
    /\ UNCHANGED <<activeWorkflows, running, taskHandlers, agentsApi, agentStatus>>

\* DELETE /api/workflows/:id: workflows.delete(id), and nothing is published.
ApiDelete(id) ==
    /\ id \in DOMAIN workflows
    /\ workflows' = [w \in DOMAIN workflows \ {id} |-> workflows[w]]
    /\ UNCHANGED <<activeWorkflows, running, taskHandlers, agentsApi, agentStatus>>

ApiNext ==
    \/ \E id \in WorkflowIds, def \in ApiDefinitions : ApiCreate(id, def)
    \/ \E id \in WorkflowIds : ApiStart(id)
    \/ \E id \in WorkflowIds : ApiPause(id)
    \/ \E id \in WorkflowIds : ApiCancel(id)
    \/ \E id \in WorkflowIds, status \in UpdateStatuses : ApiUpdate(id, status)
    \/ \E id \in WorkflowIds : ApiDelete(id)
    \/ \E result \in ResultPayloads : ResultStar(result)
    \/ \E task \in Tasks : HandleTask(task)

\* The orchestrator driven by the workflows API, the results and the agents.
ApiSpec == Init /\ [][ApiNext]_vars

\* POST /api/agents {type}: the agent is created, initialized and stored
\* under a new id.
AgentsPost(type) ==
    /\ agentsApi[type] < MaxAgents
    /\ \A t \in agents : AgentInitialize(taskHandlers, type)[t] <= MaxAgents
    /\ taskHandlers' = AgentInitialize(taskHandlers, type)
    /\ agentsApi' = [agentsApi EXCEPT ![type] = @ + 1]
    /\ UNCHANGED <<activeWorkflows, running, agentStatus, workflows>>

\* DELETE /api/agents/:id for a stored agent of the type: agents.delete(id).
AgentsDelete(type) ==
    /\ agentsApi[type] > 0
    /\ agentsApi' = [agentsApi EXCEPT ![type] = @ - 1]
    /\ UNCHANGED <<activeWorkflows, running, taskHandlers, agentStatus, workflows>>

AgentsNext ==
    \/ \E type \in AgentType : AgentsPost(type)
    \/ \E type \in AgentType : AgentsDelete(type)

\* The agents API alone, from the loading of the modules.
AgentsSpec == AgentsInit /\ [][AgentsNext]_vars

\* The agents' timers fire: the result of a running task is eventually
\* published.  Callers are under no obligation to publish anything.
FairSpec == Spec /\ WF_vars(\E task \in Tasks : HandleTask(task))

----------------------------------------------------------------------------
(* Vocabulary of the claims *)

Stored(w) == w \in DOMAIN activeWorkflows

Steps(w) == activeWorkflows[w].steps

StepIndices(w) == 1..Len(Steps(w))

\* The stored workflow w was created from the definition def.
IsDef(wf, def) ==
    /\ Len(wf.steps) = Len(def)
    /\ \A i \in 1..Len(def) :
          /\ wf.steps[i].id = def[i].id
          /\ wf.steps[i].agentType = def[i].agentType
          /\ wf.steps[i].dependsOn = def[i].dependsOn

\* Step i of workflow w is in_progress after this step and was not before.
BecomesInProgress(w, i) ==
    /\ activeWorkflows'[w].steps[i].status = "in_progress"
    /\ ~ ( /\ Stored(w)
           /\ i <= Len(Steps(w))
           /\ Steps(w)[i].status = "in_progress" )

----------------------------------------------------------------------------
(* C1 *)

\* C1: whenever a step changes to in_progress (by start, by resume or by the
\* fan-out after a result), every id in its dependsOn names a step of the
\* same workflow whose status is completed at that moment.
C1_DispatchOnlyWhenDependenciesCompleted ==
    [][ \A w \in DOMAIN activeWorkflows' :
          \A i \in 1..Len(activeWorkflows'[w].steps) :
             BecomesInProgress(w, i) =>
                \A d \in activeWorkflows'[w].steps[i].dependsOn :
                   \E j \in 1..Len(activeWorkflows'[w].steps) :
                      /\ activeWorkflows'[w].steps[j].id = d
                      /\ activeWorkflows'[w].steps[j].status = "completed" ]_vars

\* A step with two dependencies has been dispatched.
C1_Witness ==
    \E w \in DOMAIN activeWorkflows :
       \E i \in StepIndices(w) :
          /\ Cardinality(Steps(w)[i].dependsOn) = 2
          /\ Steps(w)[i].status = "in_progress"

----------------------------------------------------------------------------
(* More vocabulary *)

\* The step ids of the tasks among the events out, in publication order.
RECURSIVE DispatchedStepIds(_)
DispatchedStepIds(out) ==
    IF out = << >> THEN << >>
    ELSE IF Head(out).topic.prefix = "task"
         THEN << Head(out).payload.stepId >> \o DispatchedStepIds(Tail(out))
         ELSE DispatchedStepIds(Tail(out))

\* The ids of the steps of wf whose index is in keep, in declaration order.
RECURSIVE IdsFrom(_, _, _)
IdsFrom(wf, i, keep) ==
    IF i > Len(wf.steps) THEN << >>
    ELSE IF i \in keep THEN << wf.steps[i].id >> \o IdsFrom(wf, i + 1, keep)
    ELSE IdsFrom(wf, i + 1, keep)

\* The topics of the events out.
Topics(out) == { out[k].topic : k \in 1..Len(out) }

\* The statuses of the steps of a workflow, in declaration order.
Statuses(wf) == [i \in 1..Len(wf.steps) |-> wf.steps[i].status]

\* w was cancelled and still has the status cancel gave it: only cancel makes
\* a step skipped, and it leaves no step pending or in_progress.
Cancelled(w) ==
    /\ Stored(w)
    /\ activeWorkflows[w].status = "failed"
    /\ activeWorkflows[w].completedAt
    /\ \E i \in StepIndices(w) : Steps(w)[i].status = "skipped"
    /\ \A i \in StepIndices(w) : Steps(w)[i].status \notin {"pending", "in_progress"}

\* The definitions that are acyclic, refer to existing steps only and use
\* handler types with a registered agent, whose execute succeeds.
AllSucceed(wf) == IsDef(wf, Onboarding) \/ IsDef(wf, Chain) \/ IsDef(wf, Join)

TasksOf(w) == { t \in running : t.workflowId = w }

----------------------------------------------------------------------------
(* C2 *)

\* Every step without dependencies has been dispatched, and no step has
\* failed or been skipped.
StartedCleanly(w) ==
    /\ \A i \in StepIndices(w) :
          Steps(w)[i].dependsOn = {} => Steps(w)[i].status # "pending"
    /\ \A i \in StepIndices(w) : Steps(w)[i].status \notin {"failed", "skipped"}

\* C2: for an acyclic workflow whose handlers all succeed, create and start
\* lead, through the handlers' published results, to the workflow being
\* completed with all steps completed.  As a final result: once the roots of
\* the workflow have been dispatched, no step has failed, the workflow is
\* neither paused nor failed, and every task dispatched for it has had its
\* result published by its handler, the workflow is completed.
C2_StartedWorkflowCompletes ==
    \A w \in DOMAIN activeWorkflows :
       ( /\ AllSucceed(activeWorkflows[w])
         /\ StartedCleanly(w)
         /\ activeWorkflows[w].status \notin {"paused", "failed"}
         /\ TasksOf(w) = {} )
       => /\ activeWorkflows[w].status = "completed"
          /\ \A i \in StepIndices(w) : Steps(w)[i].status = "completed"

----------------------------------------------------------------------------
(* C3 *)

HasFailedStep(w) == Stored(w) /\ AnyStepFailed(activeWorkflows[w])

\* C3: once a step of a workflow is failed, the workflow eventually has status
\* failed (unless the workflow is replaced by a new definition).
C3_FailedStepFailsWorkflow ==
    \A w \in WorkflowIds :
       HasFailedStep(w) ~> (~HasFailedStep(w) \/ activeWorkflows[w].status = "failed")

----------------------------------------------------------------------------
(* C4 *)

\* C4: completedAt is set if and only if the workflow status is completed or
\* failed.
C4_CompletedAtIffTerminal ==
    \A w \in DOMAIN activeWorkflows :
       activeWorkflows[w].completedAt
          <=> activeWorkflows[w].status \in {"completed", "failed"}

----------------------------------------------------------------------------
(* C5 *)

\* C5: a resume event for a cancelled workflow leaves its status failed and
\* dispatches no step.
C5_CancelledCannotBeResumed ==
    [][ \A w \in WorkflowIds :
          (Cancelled(w) /\ WorkflowResume(w)) =>
             /\ activeWorkflows'[w].status = "failed"
             /\ running' = running ]_vars

----------------------------------------------------------------------------
(* C6 *)

\* C6: a result that arrives for a step of a cancelled workflow changes no
\* step status, leaves the workflow failed, dispatches no step and publishes
\* no workflow:completed notification.
C6_LateResultHasNoEffect ==
    [][ \A result \in ResultPayloads :
          ( /\ result.workflowId \in WorkflowIds
            /\ Cancelled(result.workflowId)
            /\ ResultStar(result) ) =>
             /\ activeWorkflows'[result.workflowId].status = "failed"
             /\ Statuses(activeWorkflows'[result.workflowId])
                   = Statuses(activeWorkflows[result.workflowId])
             /\ running' = running
             /\ Published(Topic("result", "*"), result).out = << >> ]_vars

----------------------------------------------------------------------------
(* C7 *)

\* C7: the result a handler publishes on result:<taskId> is delivered to the
\* orchestrator's handleTaskResult, for every task that is being executed.
C7_ResultReachesOrchestrator ==
    \A task \in running :
       "handleTaskResult" \in Listeners(Topic("result", task.id))

----------------------------------------------------------------------------
(* C8 *)

\* C8: the result a handler publishes for a task the orchestrator dispatched
\* carries the workflowId and the stepId of that task.
C8_ResultCarriesCorrelation ==
    \A task \in running :
       /\ Execute(task).workflowId = task.workflowId
       /\ Execute(task).stepId = task.stepId

----------------------------------------------------------------------------
(* C9 *)

\* What start publishes for the stored workflow w in the current state.
StartOf(w) ==
    StartWorkflow(activeWorkflows, [workflowId |-> w], IdsInUse(activeWorkflows, running))

\* C9 as stated: start dispatches exactly one task per step with an empty
\* dependsOn, in declaration order, and none for a step with dependencies.
C9_StartDispatchesEveryRoot ==
    \A w \in DOMAIN activeWorkflows :
       DispatchedStepIds(StartOf(w).out)
          = IdsFrom(activeWorkflows[w], 1,
                    { i \in StepIndices(w) : Steps(w)[i].dependsOn = {} })

\* C9 amended: start dispatches exactly one task per step that has an empty
\* dependsOn and a handler type with a registered agent, in declaration
\* order, and no task for any other step.
C9_StartDispatchesRegisteredRoots ==
    \A w \in DOMAIN activeWorkflows :
       /\ DispatchedStepIds(StartOf(w).out)
             = IdsFrom(activeWorkflows[w], 1,
                       { i \in StepIndices(w) :
                            /\ Steps(w)[i].dependsOn = {}
                            /\ Steps(w)[i].agentType
                                  \in {"customer_service", "scheduling",
                                       "billing", "document"} })
       /\ Len(StartOf(w).out) = Len(DispatchedStepIds(StartOf(w).out))

\* A workflow with two roots has been started: both roots are in_progress,
\* their tasks are running, and the join step is still pending.
C9_Witness ==
    \E w \in DOMAIN activeWorkflows :
       /\ IsDef(activeWorkflows[w], Join)
       /\ Statuses(activeWorkflows[w]) = << "in_progress", "in_progress", "pending" >>
       /\ { t.stepId : t \in TasksOf(w) } = {"s1", "s2"}

----------------------------------------------------------------------------
(* C10 *)

\* What handleTaskResult does with a success result for step stepId of w.
SuccessOf(w, stepId) ==
    HandleTaskResult(activeWorkflows,
                     [taskId |-> Undefined, success |-> TRUE,
                      workflowId |-> w, stepId |-> stepId],
                     IdsInUse(activeWorkflows, running))

\* C10: in a started chain A -> B -> C, processing A's success result
\* dispatches B and not C; processing B's success result then dispatches C.
C10_ChainAdvancesOneStepPerResult ==
    \A w \in DOMAIN activeWorkflows :
       (IsDef(activeWorkflows[w], Chain) /\ activeWorkflows[w].status = "active") =>
          /\ Statuses(activeWorkflows[w]) = << "in_progress", "pending", "pending" >>
                => /\ DispatchedStepIds(SuccessOf(w, "s1").out) = << "s2" >>
                   /\ Statuses(SuccessOf(w, "s1").store[w])
                         = << "completed", "in_progress", "pending" >>
          /\ Statuses(activeWorkflows[w]) = << "completed", "in_progress", "pending" >>
                => /\ DispatchedStepIds(SuccessOf(w, "s2").out) = << "s3" >>
                   /\ Statuses(SuccessOf(w, "s2").store[w])
                         = << "completed", "completed", "in_progress" >>

\* The chain has advanced to its last step: A and B are completed and C has
\* been dispatched.
C10_Witness ==
    \E w \in DOMAIN activeWorkflows :
       /\ IsDef(activeWorkflows[w], Chain)
       /\ activeWorkflows[w].status = "active"
       /\ Statuses(activeWorkflows[w]) = << "completed", "completed", "in_progress" >>
       /\ \E t \in TasksOf(w) : t.stepId = "s3"

----------------------------------------------------------------------------
(* C11 *)

\* What cancel does to the stored workflow w in the current state.
CancelOf(w) == CancelWorkflow(activeWorkflows, [workflowId |-> w])

\* C11: cancelling a workflow turns every in_progress step into failed and
\* every pending step into skipped, sets the workflow status to failed and
\* sets completedAt; afterwards no step is pending or in_progress.
C11_CancelFailsAndSkips ==
    \A w \in DOMAIN activeWorkflows :
       LET after == CancelOf(w).store[w] IN
       /\ after.status = "failed"
       /\ after.completedAt
       /\ Len(after.steps) = Len(Steps(w))
       /\ \A i \in StepIndices(w) :
             /\ Steps(w)[i].status = "in_progress" => after.steps[i].status = "failed"
             /\ Steps(w)[i].status = "pending" => after.steps[i].status = "skipped"
             /\ after.steps[i].status \notin {"pending", "in_progress"}

\* A chain was cancelled while its first step was in_progress and the other
\* two were pending.
C11_Witness ==
    \E w \in DOMAIN activeWorkflows :
       /\ IsDef(activeWorkflows[w], Chain)
       /\ activeWorkflows[w].status = "failed"
       /\ activeWorkflows[w].completedAt
       /\ Statuses(activeWorkflows[w]) = << "failed", "skipped", "skipped" >>

----------------------------------------------------------------------------
(* C12 *)

\* What handleTaskResult does with the result in the current state.
ResultOf(result) == HandleTaskResult(activeWorkflows, result, IdsInUse(activeWorkflows, running))

\* What pause does to the stored workflow w in the current state.
PauseOf(w) == PauseWorkflow(activeWorkflows, [workflowId |-> w])

\* The steps of w that are in_progress in the store m.
InProgressIn(m, w) ==
    { i \in 1..Len(m[w].steps) : m[w].steps[i].status = "in_progress" }

\* C12: while a workflow is paused, no step of it changes to in_progress and
\* no task is published for it, neither by a further pause nor by a result:
\* a success result completes its step and leaves every pending step, the
\* newly eligible dependents included, pending.
C12_PausedDispatchesNothing ==
    \A w \in DOMAIN activeWorkflows :
       activeWorkflows[w].status = "paused" =>
          /\ DispatchedStepIds(PauseOf(w).out) = << >>
          /\ InProgressIn(PauseOf(w).store, w) \subseteq InProgressIn(activeWorkflows, w)
          /\ \A result \in ResultPayloads :
                result.workflowId = w =>
                   LET r == ResultOf(result)
                       s == FindStep(activeWorkflows[w], result.stepId)
                   IN  /\ DispatchedStepIds(r.out) = << >>
                       /\ InProgressIn(r.store, w) \subseteq InProgressIn(activeWorkflows, w)
                       /\ (s # 0 /\ result.success) =>
                             /\ r.store[w].steps[s].status = "completed"
                             /\ \A i \in StepIndices(w) \ {s} :
                                   Steps(w)[i].status = "pending"
                                      => r.store[w].steps[i].status = "pending"

\* A paused chain whose first step is completed: the second step is eligible
\* and still pending.
C12_Witness ==
    \E w \in DOMAIN activeWorkflows :
       /\ IsDef(activeWorkflows[w], Chain)
       /\ activeWorkflows[w].status = "paused"
       /\ Statuses(activeWorkflows[w]) = << "completed", "pending", "pending" >>

----------------------------------------------------------------------------
(* C13 *)

\* What resume does to the stored workflow w in the current state.
ResumeOf(w) ==
    ResumeWorkflow(activeWorkflows, [workflowId |-> w], IdsInUse(activeWorkflows, running))

\* The steps of w that are pending and whose dependsOn ids all name a
\* completed step of w.
EligibleAtResume(w) ==
    { i \in StepIndices(w) :
         /\ Steps(w)[i].status = "pending"
         /\ \A d \in Steps(w)[i].dependsOn :
               \E j \in StepIndices(w) :
                  Steps(w)[j].id = d /\ Steps(w)[j].status = "completed" }

\* The steps whose handler type has a registered agent.
HasRegisteredAgent(w) ==
    { i \in StepIndices(w) :
         Steps(w)[i].agentType
            \in {"customer_service", "scheduling", "billing", "document"} }

\* C13 as stated: resuming a paused workflow dispatches exactly the steps
\* that are pending with all dependencies completed: each becomes in_progress
\* with one task published, and no other step is dispatched or changes status.
C13_ResumeDispatchesEveryEligible ==
    \A w \in DOMAIN activeWorkflows :
       activeWorkflows[w].status = "paused" =>
          LET r == ResumeOf(w) IN
          /\ DispatchedStepIds(r.out)
                = IdsFrom(activeWorkflows[w], 1, EligibleAtResume(w))
          /\ \A i \in StepIndices(w) :
                r.store[w].steps[i].status
                   = IF i \in EligibleAtResume(w) THEN "in_progress"
                     ELSE Steps(w)[i].status

\* C13 amended: resuming a paused workflow dispatches exactly the pending
\* steps with all dependencies completed whose handler type has a registered
\* agent, one task each in declaration order, and they become in_progress; a
\* pending step with all dependencies completed whose type has no registered
\* agent becomes failed without a task; no other step changes status.
C13_ResumeDispatchesRegisteredEligible ==
    \A w \in DOMAIN activeWorkflows :
       activeWorkflows[w].status = "paused" =>
          LET r == ResumeOf(w) IN
          /\ r.store[w].status = "active"
          /\ DispatchedStepIds(r.out)
                = IdsFrom(activeWorkflows[w], 1,
                          EligibleAtResume(w) \cap HasRegisteredAgent(w))
          /\ Len(r.out) = Len(DispatchedStepIds(r.out))
          /\ \A i \in StepIndices(w) :
                r.store[w].steps[i].status
                   = IF i \in EligibleAtResume(w) \cap HasRegisteredAgent(w)
                        THEN "in_progress"
                     ELSE IF i \in EligibleAtResume(w) THEN "failed"
                     ELSE Steps(w)[i].status

\* A paused join whose two roots completed during the pause: resume has the
\* join step to dispatch.
C13_Witness ==
    \E w \in DOMAIN activeWorkflows :
       /\ IsDef(activeWorkflows[w], Join)
       /\ activeWorkflows[w].status = "paused"
       /\ Statuses(activeWorkflows[w]) = << "completed", "completed", "pending" >>
       /\ DispatchedStepIds(ResumeOf(w).out) = << "s3" >>

----------------------------------------------------------------------------
(* C14 *)

\* The result names no step of a stored workflow: it lacks the workflowId or
\* the stepId, or its workflow is not stored, or its step is not one of the
\* workflow's.
Uncorrelated(result) ==
    \/ result.workflowId = Undefined
    \/ result.stepId = Undefined
    \/ ~Stored(result.workflowId)
    \/ \A i \in StepIndices(result.workflowId) :
          Steps(result.workflowId)[i].id # result.stepId

\* C14: a result that lacks the workflowId or the stepId, or names a workflow
\* that is not stored or a step that is not in that workflow, is a no-op:
\* the store is unchanged, nothing is published and handleTaskResult does not
\* throw.
C14_UncorrelatedResultIsNoOp ==
    \A result \in ResultPayloads :
       Uncorrelated(result) =>
          /\ ResultOf(result).store = activeWorkflows
          /\ ResultOf(result).out = << >>
          /\ ~ResultOf(result).threw

\* A workflow with a step in progress is stored while results of each of the
\* four kinds can arrive: without workflowId, without stepId, for a workflow
\* that is not stored and for a step the workflow does not have.
C14_Witness ==
    /\ \E w \in DOMAIN activeWorkflows : InProgressIn(activeWorkflows, w) # {}
    /\ \E result \in ResultPayloads :
          Uncorrelated(result) /\ result.workflowId = Undefined
    /\ \E result \in ResultPayloads :
          Uncorrelated(result) /\ result.workflowId # Undefined
             /\ result.stepId = Undefined
    /\ \E result \in ResultPayloads :
          /\ result.workflowId # Undefined
          /\ result.stepId # Undefined
          /\ ~Stored(result.workflowId)
    /\ \E result \in ResultPayloads :
          /\ Stored(result.workflowId)
          /\ result.stepId # Undefined
          /\ Uncorrelated(result)

----------------------------------------------------------------------------
(* C15 *)

\* What a second cancel does after cancel has run on w in the current state.
CancelTwiceOf(w) == CancelWorkflow(CancelOf(w).store, [workflowId |-> w])

\* C15: a second cancel does not change the status of any step, both right
\* after the first cancel and in any later state in which the workflow still
\* is as cancel left it.
C15_SecondCancelKeepsStepStatuses ==
    \A w \in DOMAIN activeWorkflows :
       /\ Statuses(CancelTwiceOf(w).store[w]) = Statuses(CancelOf(w).store[w])
       /\ Cancelled(w) =>
             Statuses(CancelOf(w).store[w]) = Statuses(activeWorkflows[w])

\* A chain was cancelled with its first step completed, its second in
\* progress and its third pending.
C15_Witness ==
    \E w \in DOMAIN activeWorkflows :
       /\ Cancelled(w)
       /\ IsDef(activeWorkflows[w], Chain)
       /\ Statuses(activeWorkflows[w]) = << "completed", "failed", "skipped" >>

----------------------------------------------------------------------------
(* C16 *)

\* C16: a cancel on a workflow whose status is completed or failed is a
\* no-op: the status and completedAt are left as they were and no
\* workflow:cancelled notification is published.
C16_CancelOfTerminalIsNoOp ==
    \A w \in DOMAIN activeWorkflows :
       activeWorkflows[w].status \in {"completed", "failed"} =>
          /\ CancelOf(w).store[w].status = activeWorkflows[w].status
          /\ CancelOf(w).store[w].completedAt = activeWorkflows[w].completedAt
          /\ Topic("workflow", "cancelled") \notin Topics(CancelOf(w).out)

----------------------------------------------------------------------------
(* C17 *)

\* The stored workflow w is the same workflow object before and after this
\* step: it is stored in both states with the same steps in the same order,
\* and the step is not a workflow:create that replaces it.
SameWorkflow(w) ==
    /\ Stored(w)
    /\ w \in DOMAIN activeWorkflows'
    /\ Len(activeWorkflows'[w].steps) = Len(Steps(w))
    /\ \A def \in Definitions : ~WorkflowCreate(w, def)

\* The status changes of a step that the step state machine has.  A step
\* whose handler type has no registered agent is set to in_progress and then
\* to failed inside one executeWorkflowStep call, which shows as pending to
\* failed.
StepTransitionAllowed(step, from, to) ==
    \/ from = "pending" /\ to = "in_progress"
    \/ from = "in_progress" /\ to \in {"completed", "failed"}
    \/ from = "pending" /\ to = "skipped"
    \/ from = "pending" /\ to = "failed" /\ step.agentType = "workflow"

\* C17: every status change of a step is pending -> in_progress,
\* in_progress -> completed, in_progress -> failed or pending -> skipped, the
\* last only by cancel; a completed, failed or skipped step never changes
\* status again.
C17_StepStateMachine ==
    [][ \A w \in WorkflowIds :
          SameWorkflow(w) =>
             \A i \in StepIndices(w) :
                LET from == Steps(w)[i].status
                    to   == activeWorkflows'[w].steps[i].status
                IN  from # to =>
                       /\ StepTransitionAllowed(Steps(w)[i], from, to)
                       /\ to = "skipped" => WorkflowCancel(w) ]_vars

----------------------------------------------------------------------------
(* C18 *)

\* The status changes of a workflow that the workflow state machine has.
WorkflowTransitionAllowed(from, to) ==
    \/ from = "active" /\ to \in {"paused", "completed", "failed"}
    \/ from = "paused" /\ to = "active"

\* C18: every status change of a workflow is active -> paused,
\* active -> completed, active -> failed or paused -> active; a completed or
\* failed workflow never changes status again.  The cancel of a paused
\* workflow (paused -> failed) is not counted against the claim.
C18_WorkflowStateMachine ==
    [][ \A w \in WorkflowIds :
          SameWorkflow(w) =>
             LET from == activeWorkflows[w].status
                 to   == activeWorkflows'[w].status
             IN  from # to =>
                    \/ WorkflowTransitionAllowed(from, to)
                    \/ from = "paused" /\ WorkflowCancel(w) ]_vars

----------------------------------------------------------------------------
(* C19 *)

\* The events among out that are published on the topic.
RECURSIVE OnTopic(_, _)
OnTopic(out, topic) ==
    IF out = << >> THEN << >>
    ELSE IF Head(out).topic = topic
         THEN << Head(out) >> \o OnTopic(Tail(out), topic)
         ELSE OnTopic(Tail(out), topic)

\* C19: when a handler executes a task, exactly one result is published on
\* result:<taskId> and nothing else, whether execute returns or throws; the
\* result is the task's, and after a throw it has success false.
C19_ExactlyOneResultPerTask ==
    \A task \in running :
       \A outcome \in ExecuteOutcomes :
          LET events == HandleTaskEvents(task, outcome)
              mine   == OnTopic(events, Topic("result", task.id))
          IN  /\ Len(mine) = 1
              /\ Len(events) = 1
              /\ mine[1].payload.taskId = task.id
              /\ outcome = "threw" => ~mine[1].payload.success
              /\ outcome = "returned" => mine[1].payload = Execute(task)

\* A handler has published the result of its task while another handler is
\* still executing one: fewer tasks of the workflow are running than steps
\* of it are in_progress.
C19_Witness ==
    /\ running # {}
    /\ \E w \in DOMAIN activeWorkflows :
          /\ activeWorkflows[w].status = "active"
          /\ InProgressIn(activeWorkflows, w) # {}
          /\ Cardinality(TasksOf(w)) < Cardinality(InProgressIn(activeWorkflows, w))

----------------------------------------------------------------------------
(* C20 *)

\* What executeWorkflowStep does with step i of the stored workflow w in the
\* current state.
ExecuteStepOf(w, i) ==
    ExecuteWorkflowStep([wf |-> activeWorkflows[w], out |-> << >>,
                         used |-> IdsInUse(activeWorkflows, running)], i)

\* C20: when executeWorkflowStep runs for a step of an active workflow whose
\* dependencies are all completed and whose handler type is workflow, for
\* which the orchestrator registers no agent, the step becomes failed and no
\* task is published; no other step changes.
C20_MissingHandlerFailsStep ==
    \A w \in DOMAIN activeWorkflows :
       \A i \in StepIndices(w) :
          ( /\ activeWorkflows[w].status = "active"
            /\ Steps(w)[i].agentType = "workflow"
            /\ \A d \in Steps(w)[i].dependsOn :
                  \E j \in StepIndices(w) :
                     Steps(w)[j].id = d /\ Steps(w)[j].status = "completed" )
          => /\ ExecuteStepOf(w, i).wf.steps[i].status = "failed"
             /\ ExecuteStepOf(w, i).out = << >>
             /\ \A j \in StepIndices(w) \ {i} :
                   ExecuteStepOf(w, i).wf.steps[j] = Steps(w)[j]

\* A workflow whose root step has the type workflow was started: the step is
\* failed, no task is running for it and its dependent is still pending.
C20_Witness ==
    \E w \in DOMAIN activeWorkflows :
       /\ IsDef(activeWorkflows[w], Nested)
       /\ activeWorkflows[w].status = "active"
       /\ Statuses(activeWorkflows[w]) = << "failed", "pending" >>
       /\ TasksOf(w) = {}

----------------------------------------------------------------------------
(* C21 *)

\* The lifecycle topics whose listeners look the workflow up by its id.
LookupTopics ==
    { Topic("workflow", "start"), Topic("workflow", "pause"),
      Topic("workflow", "resume"), Topic("workflow", "cancel") }

\* C21: start, pause, resume and cancel published for a workflow id that is
\* not in the store leave the store unchanged, publish nothing and do not end
\* in an error that escapes the orchestrator: the listener does not throw.
C21_UnknownWorkflowIsReported ==
    \A w \in WorkflowIds \cup {"w9"} :
       ~Stored(w) =>
          \A topic \in LookupTopics :
             LET r == Published(topic, [workflowId |-> w])
             IN  /\ r.store = activeWorkflows
                 /\ r.out = << >>
                 /\ ~r.threw

----------------------------------------------------------------------------
(* C22 *)

\* The events the components publish in the current state: the task of each
\* running agent as the orchestrator published it, the result each running
\* agent will publish, and a lifecycle event and a result as callers publish
\* them.
EventsNow ==
    { Event(Topic("task", t.agentType), t) : t \in running }
    \cup { Event(Topic("result", t.id), Execute(t)) : t \in running }
    \cup { Event(topic, [workflowId |-> w]) : topic \in LookupTopics, w \in WorkflowIds }
    \cup { Event(Topic("result", "*"), result) : result \in ResultPayloads }

\* The calls of the list that were made to a listener subscribed to topic.
CallsTo(calls, topic) ==
    LET to(c) == c.topic = topic IN SelectSeq(calls, to)

----------------------------------------------------------------------------
(* C23 *)

\* What create does with the definition def sent under the id w in the
\* current state.
CreateOf(w, def) ==
    CreateWorkflow(activeWorkflows, [id |-> w, steps |-> def],
                   IdsInUse(activeWorkflows, running))

\* C23: after create the workflow is stored under its id with status active,
\* no completedAt and every step pending with no result, whatever status the
\* steps of the definition carried; a step sent with an id keeps it, a step
\* sent without one gets an id that nothing else holds; workflow:created is
\* published.
C23_CreateStoresPendingWorkflow ==
    \A w \in WorkflowIds :
       \A def \in Definitions :
          LET r  == CreateOf(w, def)
              wf == r.store[w]
          IN  /\ ~r.threw
              /\ r.out = << Event(Topic("workflow", "created"), [workflowId |-> w]) >>
              /\ wf.id = w
              /\ wf.status = "active"
              /\ ~wf.completedAt
              /\ Len(wf.steps) = Len(def)
              /\ \A i \in 1..Len(def) :
                    /\ wf.steps[i].status = "pending"
                    /\ wf.steps[i].result = Undefined
                    /\ wf.steps[i].agentType = def[i].agentType
                    /\ wf.steps[i].dependsOn = def[i].dependsOn
                    /\ def[i].id # Undefined => wf.steps[i].id = def[i].id
                    /\ def[i].id = Undefined =>
                          /\ wf.steps[i].id # Undefined
                          /\ wf.steps[i].id \notin IdsInUse(activeWorkflows, running)
                          /\ \A j \in 1..Len(def) :
                                wf.steps[j].id = wf.steps[i].id => j = i

\* A definition whose step has no id and is marked completed was created
\* while an agent was executing a task: the stored step has an id of its own
\* and is pending without a result.
C23_Witness ==
    \E w \in DOMAIN activeWorkflows :
       /\ running # {}
       /\ Len(Steps(w)) = 1
       /\ Steps(w)[1].id \notin StepIds \cup TaskIds(running) \cup {Undefined}
       /\ Steps(w)[1].status = "pending"
       /\ Steps(w)[1].result = Undefined
       /\ activeWorkflows[w].status = "active"
       /\ ~activeWorkflows[w].completedAt

----------------------------------------------------------------------------
(* C24 *)

\* C24: create with the id of a stored workflow overwrites the entry: the
\* store then holds, for that id, the new definition only, active, with all
\* steps pending and without the earlier workflow's step statuses and
\* results.
C24_CreateOverwrites ==
    \A w \in DOMAIN activeWorkflows :
       \A def \in Definitions :
          LET r == CreateOf(w, def) IN
          /\ DOMAIN r.store = DOMAIN activeWorkflows
          /\ \A v \in DOMAIN activeWorkflows \ {w} : r.store[v] = activeWorkflows[v]
          /\ r.store[w].status = "active"
          /\ ~r.store[w].completedAt
          /\ Len(r.store[w].steps) = Len(def)
          /\ \A i \in 1..Len(def) :
                /\ r.store[w].steps[i].agentType = def[i].agentType
                /\ r.store[w].steps[i].dependsOn = def[i].dependsOn
                /\ r.store[w].steps[i].status = "pending"
                /\ r.store[w].steps[i].result = Undefined

\* A failed workflow with a completed step and its result is stored, and a
\* create with its id and a shorter definition leaves nothing of it.
C24_Witness ==
    \E w \in DOMAIN activeWorkflows :
       /\ activeWorkflows[w].status = "failed"
       /\ activeWorkflows[w].completedAt
       /\ Len(Steps(w)) = 3
       /\ \E i \in StepIndices(w) :
             Steps(w)[i].status = "completed" /\ Steps(w)[i].result = "success"
       /\ Statuses(CreateOf(w, Onboarding).store[w]) = << "pending", "pending" >>

----------------------------------------------------------------------------
(* C25 *)

\* The steps of wf that can be reached in dependency order: every id in
\* their dependsOn names a step of wf that can itself be reached.
Reachable(wf) ==
    LET good[k \in 0..Len(wf.steps)] ==
           IF k = 0 THEN {}
           ELSE { i \in 1..Len(wf.steps) :
                     \A d \in wf.steps[i].dependsOn :
                        \E j \in good[k - 1] : wf.steps[j].id = d }
    IN  good[Len(wf.steps)]

\* The steps that lie on a dependency cycle, refer to a step id that the
\* workflow does not have, or depend on such a step.
Stalled(wf) == (1..Len(wf.steps)) \ Reachable(wf)

\* In the store m, every stalled step of w is pending, none of the events out
\* is a task for one of them, and w is not completed.
StillStalled(m, out, w) ==
    /\ \A i \in Stalled(m[w]) : m[w].steps[i].status = "pending"
    /\ \A k \in 1..Len(out) :
          out[k].topic.prefix = "task" =>
             \A i \in Stalled(m[w]) : out[k].payload.stepId # m[w].steps[i].id
    /\ m[w].status # "completed"

\* C25: create accepts a definition with a dependency cycle or a dangling
\* reference without error; as long as its stalled steps are pending, they
\* are still pending and undispatched, and the workflow is not completed,
\* after start, pause, resume, a handler's result and any result for one of
\* the other steps.
C25_StalledStepsStayPending ==
    /\ \A w \in WorkflowIds :
          \A def \in {Cyclic, Dangling} :
             /\ ~CreateOf(w, def).threw
             /\ Stalled(CreateOf(w, def).store[w]) # {}
             /\ StillStalled(CreateOf(w, def).store, << >>, w)
    /\ \A w \in DOMAIN activeWorkflows :
          ( /\ Stalled(activeWorkflows[w]) # {}
            /\ \A i \in Stalled(activeWorkflows[w]) : Steps(w)[i].status = "pending" )
          => /\ activeWorkflows[w].status # "completed"
             /\ StillStalled(StartOf(w).store, StartOf(w).out, w)
             /\ StillStalled(PauseOf(w).store, PauseOf(w).out, w)
             /\ StillStalled(ResumeOf(w).store, ResumeOf(w).out, w)
             /\ \A task \in running :
                   LET r == Published(Topic("result", task.id), Execute(task))
                   IN  StillStalled(r.store, r.out, w)
             /\ \A result \in ResultPayloads :
                   ( /\ result.workflowId = w
                     /\ \A i \in Stalled(activeWorkflows[w]) :
                           Steps(w)[i].id # result.stepId )
                   => StillStalled(ResultOf(result).store, ResultOf(result).out, w)

\* The cyclic workflow was started and its only other step has completed: the
\* two steps of the cycle are pending and the workflow is still active.
C25_Witness ==
    \E w \in DOMAIN activeWorkflows :
       /\ IsDef(activeWorkflows[w], Cyclic)
       /\ Stalled(activeWorkflows[w]) = {2, 3}
       /\ activeWorkflows[w].status = "active"
       /\ Statuses(activeWorkflows[w]) = << "completed", "pending", "pending" >>

----------------------------------------------------------------------------
(* C26 *)

\* The steps of w that are pending, list the step S in dependsOn and have
\* every dependency completed once S is completed.
EligibleAfter(w, S) ==
    { i \in StepIndices(w) :
         /\ Steps(w)[i].status = "pending"
         /\ S \in Steps(w)[i].dependsOn
         /\ \A d \in Steps(w)[i].dependsOn \ {S} :
               \E j \in StepIndices(w) :
                  Steps(w)[j].id = d /\ Steps(w)[j].status = "completed" }

\* A success result for a step of the stored workflow w.
SuccessFor(w, result) ==
    /\ result.workflowId = w
    /\ result.success
    /\ \E j \in StepIndices(w) : Steps(w)[j].id = result.stepId

\* C26 as stated: a success result for step S of an active workflow
\* dispatches exactly the steps that are pending, list S in dependsOn and have
\* every dependency completed; every other pending step stays pending.
C26_ResultDispatchesEveryEligible ==
    \A w \in DOMAIN activeWorkflows :
       activeWorkflows[w].status = "active" =>
          \A result \in ResultPayloads :
             SuccessFor(w, result) =>
                LET r == ResultOf(result) IN
                /\ DispatchedStepIds(r.out)
                      = IdsFrom(activeWorkflows[w], 1, EligibleAfter(w, result.stepId))
                /\ \A i \in StepIndices(w) :
                      ( /\ Steps(w)[i].status = "pending"
                        /\ Steps(w)[i].id # result.stepId )
                      => r.store[w].steps[i].status
                            = IF i \in EligibleAfter(w, result.stepId)
                              THEN "in_progress" ELSE "pending"

\* C26 amended: a success result for step S of an active workflow dispatches
\* exactly the steps that are pending, list S in dependsOn, have every
\* dependency completed and have a handler type with a registered agent; a
\* step that qualifies but for the agent becomes failed without a task; every
\* other pending step, a join that waits for another dependency included,
\* stays pending.
C26_ResultDispatchesRegisteredEligible ==
    \A w \in DOMAIN activeWorkflows :
       activeWorkflows[w].status = "active" =>
          \A result \in ResultPayloads :
             SuccessFor(w, result) =>
                LET r == ResultOf(result)
                    eligible == EligibleAfter(w, result.stepId)
                IN
                /\ DispatchedStepIds(r.out)
                      = IdsFrom(activeWorkflows[w], 1, eligible \cap HasRegisteredAgent(w))
                /\ \A i \in StepIndices(w) :
                      ( /\ Steps(w)[i].status = "pending"
                        /\ Steps(w)[i].id # result.stepId )
                      => r.store[w].steps[i].status
                            = IF i \in eligible \cap HasRegisteredAgent(w)
                                 THEN "in_progress"
                              ELSE IF i \in eligible THEN "failed"
                              ELSE "pending"
                /\ \A i \in StepIndices(w) :
                      ( /\ Steps(w)[i].status # "pending"
                        /\ Steps(w)[i].id # result.stepId )
                      => r.store[w].steps[i].status = Steps(w)[i].status

\* A join whose first root has completed and left the join step pending; the
\* success result of the second root dispatches the join step.
C26_Witness ==
    \E w \in DOMAIN activeWorkflows :
       /\ IsDef(activeWorkflows[w], Join)
       /\ activeWorkflows[w].status = "active"
       /\ Statuses(activeWorkflows[w]) = << "completed", "in_progress", "pending" >>
       /\ DispatchedStepIds(SuccessOf(w, "s2").out) = << "s3" >>

----------------------------------------------------------------------------
(* C27 *)

\* The workflow:completed notifications among the events out.
CompletedEvents(out) ==
    { out[k].payload : k \in { n \in 1..Len(out) :
                                  out[n].topic = Topic("workflow", "completed") } }

\* Every step of the workflow is completed, failed or skipped.
AllTerminal(wf) ==
    \A i \in 1..Len(wf.steps) :
       wf.steps[i].status \in {"completed", "failed", "skipped"}

\* C27: handling a result for a step of a stored workflow changes the
\* workflow's status, stamps the completion time and publishes
\* workflow:completed only when every step is then completed, failed or
\* skipped; the status it sets is failed exactly when some step is failed,
\* and the success flag of the notification is true exactly when none is.
\* Hence no workflow with status completed has a failed step.
C27_CompletionFollowsStepStatuses ==
    \A w \in DOMAIN activeWorkflows :
       /\ activeWorkflows[w].status = "completed" => ~HasFailedStep(w)
       /\ \A result \in ResultPayloads :
             SuccessFor(w, [result EXCEPT !.success = TRUE]) =>
                LET r      == ResultOf(result)
                    after  == r.store[w]
                IN  IF AllTerminal(after)
                    THEN /\ after.status
                               = IF AnyStepFailed(after) THEN "failed" ELSE "completed"
                         /\ after.completedAt
                         /\ CompletedEvents(r.out)
                               = { [workflowId |-> w, success |-> ~AnyStepFailed(after)] }
                    ELSE /\ after.status = activeWorkflows[w].status
                         /\ after.completedAt = activeWorkflows[w].completedAt
                         /\ CompletedEvents(r.out) = {}

\* An onboarding workflow whose last step is in progress: its success result
\* completes the workflow, its failure result fails it.
C27_Witness ==
    \E w \in DOMAIN activeWorkflows :
       /\ IsDef(activeWorkflows[w], Onboarding)
       /\ activeWorkflows[w].status = "active"
       /\ Statuses(activeWorkflows[w]) = << "completed", "in_progress" >>
       /\ SuccessOf(w, "s2").store[w].status = "completed"
       /\ CompletedEvents(SuccessOf(w, "s2").out) = { [workflowId |-> w, success |-> TRUE] }

----------------------------------------------------------------------------
(* C28 *)

\* The result with the given success flag for step i of the stored workflow w.
ResultForStep(w, i, success) ==
    [taskId |-> Undefined, success |-> success,
     workflowId |-> w, stepId |-> Steps(w)[i].id]

\* C28: pausing a stored workflow changes nothing but the workflow's status,
\* which becomes paused: every step keeps its status and result, the steps in
\* progress included, no other workflow changes and nothing is published.
\* While a workflow is paused, a result for one of its in_progress steps is
\* still applied: the step becomes completed or failed and stores the result.
C28_PauseChangesOnlyStatus ==
    \A w \in DOMAIN activeWorkflows :
       /\ ~PauseOf(w).threw
       /\ PauseOf(w).out = << >>
       /\ PauseOf(w).store = [activeWorkflows EXCEPT ![w].status = "paused"]
       /\ InProgressIn(PauseOf(w).store, w) = InProgressIn(activeWorkflows, w)
       /\ activeWorkflows[w].status = "paused" =>
             \A i \in InProgressIn(activeWorkflows, w) :
                \A success \in BOOLEAN :
                   LET after == ResultOf(ResultForStep(w, i, success)).store[w].steps[i]
                   IN  /\ after.status = IF success THEN "completed" ELSE "failed"
                       /\ after.result = IF success THEN "success" ELSE "failure"

\* A paused join with both roots dispatched before the pause: their tasks are
\* still running and their steps are still in_progress.
C28_Witness ==
    \E w \in DOMAIN activeWorkflows :
       /\ IsDef(activeWorkflows[w], Join)
       /\ activeWorkflows[w].status = "paused"
       /\ Statuses(activeWorkflows[w]) = << "in_progress", "in_progress", "pending" >>
       /\ \E t \in TasksOf(w) : t.stepId = "s1"
       /\ SuccessOf(w, "s1").store[w].steps[1].status = "completed"

----------------------------------------------------------------------------
(* C29 *)

\* C29: cancelling a stored workflow leaves every step that is completed,
\* failed or skipped exactly as it was: a completed step keeps the status
\* completed and the result it stored.
C29_CancelKeepsFinishedSteps ==
    \A w \in DOMAIN activeWorkflows :
       \A i \in StepIndices(w) :
          Steps(w)[i].status \in {"completed", "failed", "skipped"} =>
             /\ CancelOf(w).store[w].steps[i] = Steps(w)[i]
             /\ Steps(w)[i].status = "completed" =>
                   /\ CancelOf(w).store[w].steps[i].status = "completed"
                   /\ CancelOf(w).store[w].steps[i].result = Steps(w)[i].result

\* An active join with one root completed, the other failed and the join
\* step pending: cancel skips the join step and keeps both roots' results.
C29_Witness ==
    \E w \in DOMAIN activeWorkflows :
       /\ IsDef(activeWorkflows[w], Join)
       /\ activeWorkflows[w].status = "active"
       /\ Statuses(activeWorkflows[w]) = << "completed", "failed", "pending" >>
       /\ Steps(w)[1].result = "success"
       /\ Statuses(CancelOf(w).store[w]) = << "completed", "failed", "skipped" >>
       /\ CancelOf(w).store[w].steps[1].result = "success"

----------------------------------------------------------------------------
(* C30 *)

\* Every task among the events out belongs to a step of the stored workflow w
\* that is in_progress in the store m: it is on the topic task:<agentType of
\* the step> and carries w as workflowId and the step's id as stepId.
TasksCorrelated(m, out, w) ==
    \A k \in 1..Len(out) :
       out[k].topic.prefix = "task" =>
          \E i \in StepIndices(w) :
             /\ m[w].steps[i].status = "in_progress"
             /\ out[k].topic = Topic("task", Steps(w)[i].agentType)
             /\ out[k].payload.workflowId = w
             /\ out[k].payload.stepId = Steps(w)[i].id

\* C30: every task that start, resume or the handling of a result dispatches
\* for a stored workflow is published on task:<agentType of its step> and
\* carries the workflow's id as workflowId and the step's id as stepId, also
\* when the step's config has keys named workflowId and stepId; hence every
\* task an agent is executing names a workflow id and a step id that callers
\* use.
C30_TasksCarryCorrelationIds ==
    /\ \A t \in running : t.workflowId \in WorkflowIds /\ t.stepId \in StepIds
    /\ \A w \in DOMAIN activeWorkflows :
          /\ TasksCorrelated(StartOf(w).store, StartOf(w).out, w)
          /\ TasksCorrelated(ResumeOf(w).store, ResumeOf(w).out, w)
          /\ \A result \in ResultPayloads :
                result.workflowId = w =>
                   TasksCorrelated(ResultOf(result).store, ResultOf(result).out, w)

\* The first root of a join, whose config has the keys workflowId and stepId
\* with other values, has been dispatched: the task an agent is executing for
\* it names the workflow and the step.
C30_Witness ==
    \E w \in DOMAIN activeWorkflows :
       /\ IsDef(activeWorkflows[w], Join)
       /\ Steps(w)[1].status = "in_progress"
       /\ "workflowId" \in DOMAIN Steps(w)[1].config
       /\ Steps(w)[1].config.workflowId # w
       /\ Steps(w)[1].config.stepId # Steps(w)[1].id
       /\ \E t \in running :
             /\ t.agentType = Steps(w)[1].agentType
             /\ t.workflowId = w
             /\ t.stepId = Steps(w)[1].id

----------------------------------------------------------------------------
(* C31 *)

\* The ids of the steps of w that have been dispatched or have finished
\* with a result: those in_progress, completed or failed.
AlreadyDispatched(w) ==
    { Steps(w)[i].id : i \in { j \in StepIndices(w) :
         Steps(w)[j].status \in {"in_progress", "completed", "failed"} } }

\* The step ids named by the tasks among the events out.
DispatchedSet(out) ==
    { out[k].payload.stepId : k \in { n \in 1..Len(out) :
                                         out[n].topic.prefix = "task" } }

\* C31: no start, pause, resume, cancel or result event for a stored workflow
\* publishes a task for a step of it that is already in_progress, completed
\* or failed.
C31_NoSecondDispatch ==
    \A w \in DOMAIN activeWorkflows :
       /\ DispatchedSet(StartOf(w).out) \cap AlreadyDispatched(w) = {}
       /\ DispatchedSet(PauseOf(w).out) \cap AlreadyDispatched(w) = {}
       /\ DispatchedSet(ResumeOf(w).out) \cap AlreadyDispatched(w) = {}
       /\ DispatchedSet(CancelOf(w).out) \cap AlreadyDispatched(w) = {}
       /\ \A result \in ResultPayloads :
             result.workflowId = w =>
                DispatchedSet(ResultOf(result).out) \cap AlreadyDispatched(w) = {}

----------------------------------------------------------------------------
(* C32 *)

\* C32: workflow:completed is published at most once per workflow.  A workflow
\* has the status completed only since the result handling that published the
\* notification for it, so no result that arrives for a completed workflow,
\* a duplicate or a late one, publishes the notification again.
C32_CompletedPublishedOnce ==
    \A w \in DOMAIN activeWorkflows :
       activeWorkflows[w].status = "completed" =>
          \A result \in ResultPayloads :
             CompletedEvents(ResultOf(result).out) = {}

----------------------------------------------------------------------------
(* C33 *)

\* C33: whenever a stored workflow has the status completed or failed, every
\* one of its steps is completed, failed or skipped.
C33_TerminalWorkflowHasTerminalSteps ==
    \A w \in DOMAIN activeWorkflows :
       activeWorkflows[w].status \in {"completed", "failed"} =>
          AllTerminal(activeWorkflows[w])

\* A join cancelled while both roots were in progress and the join step was
\* pending.
C33_Witness ==
    \E w \in DOMAIN activeWorkflows :
       /\ IsDef(activeWorkflows[w], Join)
       /\ activeWorkflows[w].status = "failed"
       /\ Statuses(activeWorkflows[w]) = << "failed", "failed", "skipped" >>
       /\ TasksOf(w) # {}

----------------------------------------------------------------------------
(* C34 *)

\* C34: for each handler type at most one handler is subscribed to
\* task:<type>, after any number of orchestrator initializations and agent
\* creations through the agents API, so that a task published on the topic is
\* executed once.
C34_OneHandlerPerType ==
    \A type \in agents : taskHandlers[type] <= 1

----------------------------------------------------------------------------
(* C36 *)

\* The create_workflow task for a definition sent under the id, or without an
\* id when id is Undefined.
CreateTask(id, def) ==
    [id |-> "t1", type |-> "create_workflow", data |-> [id |-> id, steps |-> def]]

\* The execute_workflow task for the workflow id.
ExecuteTask(id) ==
    [id |-> "t2", type |-> "execute_workflow", data |-> [workflowId |-> id]]

\* What execute does with the create_workflow task in the current state.
ExecuteCreateOf(id, def) ==
    WorkflowExecute(activeWorkflows, CreateTask(id, def),
                    IdsInUse(activeWorkflows, running) \cup DOMAIN activeWorkflows)

\* What execute does with the execute_workflow task for the id that the
\* result of the create_workflow task returned.
ExecuteReturnedOf(id, def) ==
    LET c == ExecuteCreateOf(id, def)
    IN  WorkflowExecute(c.store, ExecuteTask(c.result.workflowId),
                        IdsInUse(c.store, running) \cup DOMAIN c.store
                           \cup {c.result.workflowId})

\* C36: the workflowId in the result of a create_workflow task is the id under
\* which the workflow was stored (the one workflow:created announces), and an
\* execute_workflow task with that id finds the workflow and succeeds; also
\* when the definition carried no id.
C36_CreateResultNamesStoredWorkflow ==
    \A id \in WorkflowIds \cup {Undefined}, def \in Definitions :
       LET c == ExecuteCreateOf(id, def) IN
       /\ c.result.success
       /\ c.result.workflowId = c.out[1].payload.workflowId
       /\ c.result.workflowId \in DOMAIN c.store
       /\ ExecuteReturnedOf(id, def).result.success

----------------------------------------------------------------------------
(* C35 *)

\* The outcome r of an event for the stored workflow w leaves every other
\* stored workflow as it was, stores no further workflow and publishes tasks
\* for w only.
OnlyChanges(r, w) ==
    /\ DOMAIN r.store = DOMAIN activeWorkflows
    /\ \A v \in DOMAIN activeWorkflows \ {w} : r.store[v] = activeWorkflows[v]
    /\ \A k \in 1..Len(r.out) :
          r.out[k].topic.prefix = "task" => r.out[k].payload.workflowId = w

\* C35: a start, pause, resume, cancel or result event for a stored workflow
\* w changes only w: the status, completion stamp, steps and results of every
\* other stored workflow are unchanged and no task is dispatched for another
\* workflow.
C35_EventChangesOnlyItsWorkflow ==
    \A w \in DOMAIN activeWorkflows :
       /\ OnlyChanges(StartOf(w), w)
       /\ OnlyChanges(PauseOf(w), w)
       /\ OnlyChanges(ResumeOf(w), w)
       /\ OnlyChanges(CancelOf(w), w)
       /\ \A result \in FleetResults :
             result.workflowId = w => OnlyChanges(ResultOf(result), w)

\* Two workflows are stored, each with its first step in progress and a task
\* running for it, and one of them is paused.
C35_Witness ==
    /\ DOMAIN activeWorkflows = FleetIds
    /\ \A w \in FleetIds :
          /\ Steps(w)[1].status = "in_progress"
          /\ TasksOf(w) # {}
    /\ activeWorkflows["w1"].status = "active"
    /\ activeWorkflows["w2"].status = "paused"

----------------------------------------------------------------------------
(* C37 *)

\* C37: a handler's status is working for as long as it has at least one task
\* in execution: the completion of one task does not leave the handler idle
\* while another task of its type is still executing.
C37_WorkingWhileExecuting ==
    \A type \in agents :
       (\E task \in running : task.agentType = type)
          => agentStatus[type] = "working"

----------------------------------------------------------------------------
(* C38 *)

\* C38: the status the workflows API's store holds for a workflow equals the
\* status the orchestrator's store holds for it, after any sequence of API
\* calls and step results.
C38_ApiStatusEqualsOrchestratorStatus ==
    \A w \in DOMAIN workflows \cap DOMAIN activeWorkflows :
       workflows[w] = activeWorkflows[w].status

====
